---------------------------- MODULE Spec2Model ----------------------------
(***************************************************************************)
(* GitHeatmap: RepositoryService (src/src/services/repositoryService.ts,   *)
(* the class that starts at line 422): repository discovery, per           *)
(* repository git log queries, aggregation into a dense day dataset, and   *)
(* the two tier cache;                                                     *)
(* the panel that calls it (src/src/panel/heatmapPanel.ts) and the saved   *)
(* filter settings; the status bar indicator (GitActivityStatusBar, in     *)
(* src/src/extension.ts) and the handlers of activate() that make and      *)
(* dispose it.                                                             *)
(*                                                                         *)
(* Time.  An instant is an integer number of seconds since the model       *)
(* epoch, which is a UTC midnight ("day 0").  Date.now() is the variable   *)
(* now.  The local zone of a host has the offset tzBefore (seconds east of *)
(* UTC) before the instant shiftAt and the offset tz from then on; a host  *)
(* whose zone has no transition has tzBefore = tz.  Date.setDate works on  *)
(* the local calendar: it keeps the local time of day.                     *)
(*                                                                         *)
(* Strings.  A "YYYY-MM-DD" string is modelled by the day number it names, *)
(* a full ISO instant string by the instant.  Text that git prints between *)
(* the '|' delimiters is a sequence of tokens: the text "a|b" is the two   *)
(* tokens <<"a", "b">>.                                                    *)
(***************************************************************************)
EXTENDS Integers, Sequences, FiniteSets, Bags, TLC

SecPerHour == 60 * 60
SecPerDay == 24 * SecPerHour

\* private readonly CACHE_DURATION = 5 * 60 * 1000 (milliseconds), in seconds
CACHE_DURATION == 5 * 60

\* bounds of the model
MaxCalls == 2            \* getFilteredHeatmapData calls made in one behaviour
MaxTicks == 2            \* advances of the clock in one behaviour
MaxClears == 1           \* clearCache calls in one behaviour

CallIds == 1..MaxCalls

\* the host the extension runs on (fixed in a behaviour)
VARIABLE host

Day(n) == n * SecPerDay
Hour(h) == h * SecPerHour

\* date.toISOString().split("T")[0] : the UTC calendar day of an instant
IsoDate(t) == t \div SecPerDay

\* the offset of the local zone at instant t (-getTimezoneOffset())
TzAt(t) == IF t < host.shiftAt THEN host.tzBefore ELSE host.tz

\* the local wall clock reading at instant t
LocalTime(t) == t + TzAt(t)

\* the instant of a local wall clock reading (of the first one, for a reading
\* that occurs twice)
InstantOf(w) ==
  IF w - host.tzBefore < host.shiftAt THEN w - host.tzBefore ELSE w - host.tz

\* the local calendar day of an instant
LocalDate(t) == LocalTime(t) \div SecPerDay

\* date.setDate(date.getDate() + n): n calendar days on, same local time
AddDays(t, n) == InstantOf(LocalTime(t) + n * SecPerDay)

-----------------------------------------------------------------------------
(* Generic helpers *)

Range(s) == {s[i] : i \in 1..Len(s)}

\* the sum of a sequence of counts (none is negative): the size of the bag
\* that holds s[i] copies of each index i
SumSeq(s) == BagCardinality([i \in {j \in 1..Len(s) : s[j] > 0} |-> s[i]])

\* map.get(k) || 0 on a Map<string, number>
MapGet(m, k) == IF k \in DOMAIN m THEN m[k] ELSE 0

\* map.set(k, v)
MapSet(m, k, v) == [x \in (DOMAIN m) \cup {k} |-> IF x = k THEN v ELSE m[x]]

\* map.delete(k)
MapDelete(m, k) == [x \in (DOMAIN m) \ {k} |-> m[x]]

EmptyMap == [x \in {} |-> 0]

\* [...new Set(list)] : first occurrences, in order
RECURSIVE Dedupe(_)
Dedupe(s) ==
  IF s = <<>> THEN <<>>
  ELSE LET rest == Dedupe(SubSeq(s, 1, Len(s) - 1))
           last == s[Len(s)]
       IN IF last \in Range(rest) THEN rest ELSE Append(rest, last)

-----------------------------------------------------------------------------
(* The host: workspace folders, the git tool, the repositories on disk *)

\* one '|'-free piece of text printed by git, or a date printed by git
Txt(s) == [k |-> "text", s |-> s, t |-> 0]
Dt(t) == [k |-> "date", s |-> "", t |-> t]

\* a commit: author name (tokens), author email, author date, committer
\* date, whether it is a merge, subject (tokens)
Commit(h, an, ae, ad, cd, merge, subj) ==
  [hash |-> h, an |-> an, ae |-> ae, ad |-> ad, cd |-> cd,
   merge |-> merge, subj |-> subj]

\* git log of each repository on disk, most recent commit first
RepoLog(path) ==
  CASE path = "/w1" ->
         << Commit("h3", <<"alice">>, "alice@x", Day(0) + Hour(1), Day(0) + Hour(1), TRUE, <<"merge">>),
            Commit("h2", <<"bob">>, "bob@x", Day(-1) + Hour(15), Day(-1) + Hour(15), FALSE, <<"a", "b">>),
            Commit("h1", <<"alice">>, "alice@x", Day(-1) + Hour(10), Day(-1) + Hour(10), FALSE, <<"fix">>),
            Commit("h4", <<"alice">>, "alice@x", Day(-5) + Hour(9), Day(-2) + Hour(13), FALSE, <<"old">>) >>
    [] path = "/w2/n" ->
         << Commit("h5", <<"alice">>, "alice@x", Day(-1) + Hour(11), Day(-1) + Hour(11), FALSE, <<"nested">>) >>
    [] path = "/w3" ->
         << Commit("h7", <<"bob">>, "bob@x", Day(0) + Hour(3), Day(0) + Hour(3), FALSE, <<"new">>),
            Commit("h6", <<"car", "ol">>, "carol@x", Day(0) + Hour(2), Day(0) + Hour(2), FALSE, <<"odd">>),
            Commit("h8", <<"bob">>, "bob@x", Day(-2) + Hour(5), Day(-2) + Hour(5), FALSE, <<"older">>) >>
    [] path = "/w4" ->
         << Commit("h10", <<"bob">>, "bob@x", Day(-1) + Hour(9) + 600, Day(-1) + Hour(9) + 600, FALSE, <<"late">>),
            Commit("h9", <<"bob">>, "bob@x", Day(-1) + Hour(8) + 1800, Day(-1) + Hour(8) + 1800, FALSE, <<"early">>) >>
    [] OTHER -> <<>>

\* git rev-parse --git-dir succeeds in the folder; "/w5/x" holds a directory
\* named .git that is not a repository
FolderIsRepo(folder) == folder \in {"/w1", "/w2/n", "/w3", "/w4"}

\* find . -name ".git" -type d -prune, each line mapped to
\* path.join(rootPath, gitDir.replace("/.git", ""))
FindGitDirs(folder) ==
  CASE folder = "/w1" -> <<"/w1">>
    [] folder = "/w2" -> <<"/w2/n">>
    [] folder = "/w3" -> <<"/w3">>
    [] folder = "/w4" -> <<"/w4">>
    [] folder = "/w5" -> <<"/w5/x">>
    [] OTHER -> <<>>

\* require("path").basename(repoPath)
Basename(path) ==
  CASE path = "/w1" -> "w1"
    [] path = "/w2/n" -> "n"
    [] path = "/w3" -> "w3"
    [] path = "/w4" -> "w4"
    [] path = "/w5/x" -> "x"
    [] OTHER -> path

\* the hosts a behaviour can run on: the zone offset, whether
\* workspace.workspaceFolders is defined and its folders, whether git runs,
\* and git config user.email / user.name
Host(tz, hasFolders, folders, gitAvailable, email, name) ==
  [tz |-> tz, tzBefore |-> tz, shiftAt |-> 0,
   hasFolders |-> hasFolders, folders |-> folders,
   gitAvailable |-> gitAvailable,
   gitUser |-> [email |-> email, name |-> name]]

\* a host whose zone changed its offset from tzBefore to the host's tz at
\* the instant shiftAt (clocks set back at the end of daylight saving time)
HostWithShift(h, tzBefore, shiftAt) ==
  [h EXCEPT !.tzBefore = tzBefore, !.shiftAt = shiftAt]

Hosts ==
  { Host(0, FALSE, <<>>, TRUE, "alice@x", "alice"),
    Host(0, TRUE, <<"/w1">>, TRUE, "alice@x", "alice"),
    Host(Hour(8), TRUE, <<"/w1", "/w2">>, TRUE, "alice@x", "alice"),
    Host(Hour(8), TRUE, <<"/w2", "/w1">>, TRUE, "alice@x", "alice"),
    Host(0 - Hour(8), TRUE, <<"/w1", "/w3">>, TRUE, "", ""),
    Host(0, TRUE, <<"/w1">>, FALSE, "alice@x", "alice"),
    Host(0, FALSE, <<>>, FALSE, "alice@x", "alice"),
    Host(Hour(8), TRUE, <<"/w3", "/w1">>, TRUE, "", "bob"),
    Host(0, TRUE, <<"/w5">>, TRUE, "alice@x", "alice"),
    HostWithShift(Host(0 - Hour(8), TRUE, <<"/w4">>, TRUE, "alice@x", "alice"),
                  0 - Hour(7), Day(-1) + Hour(9)) }

\* Date.now() when the behaviour starts
StartInstant == Day(0) + Hour(12)

-----------------------------------------------------------------------------
(* HeatmapFilterOptions and HeatmapOptions *)

\* an optional field: absent, or present with a value
None == <<>>
Some(x) == <<x>>

Filter(timeRange, customStartDate, customEndDate, userFilter, customUser, includeMerges, dateSource, colorScheme, metric) ==
  [timeRange |-> timeRange, customStartDate |-> customStartDate,
   customEndDate |-> customEndDate, userFilter |-> userFilter,
   customUser |-> customUser, includeMerges |-> includeMerges,
   dateSource |-> dateSource, colorScheme |-> colorScheme, metric |-> metric]

\* a switch that goes back by calendar months of 31 days
RangeStartByMonths(filters, now) ==
  CASE filters.timeRange = "year" -> AddDays(now, 0 - 12 * 31)
    [] filters.timeRange = "halfYear" -> AddDays(now, 0 - 6 * 31)
    [] filters.timeRange = "quarter" -> AddDays(now, 0 - 3 * 31)
    [] filters.timeRange = "month" -> AddDays(now, 0 - 31)
    [] filters.timeRange = "custom" ->
         IF filters.customStartDate # None THEN filters.customStartDate[1] ELSE now
    [] OTHER -> now

\* the switch of convertFiltersToOptions; rangeEnd = new Date() = now
RangeStartOf(filters, now) ==
  CASE filters.timeRange = "year" -> AddDays(now, 0 - 365)
    [] filters.timeRange = "halfYear" -> AddDays(now, 0 - 180)
    [] filters.timeRange = "quarter" -> AddDays(now, 0 - 90)
    [] filters.timeRange = "month" -> AddDays(now, 0 - 30)
    [] filters.timeRange = "custom" ->
         IF filters.customStartDate # None THEN filters.customStartDate[1] ELSE now
    [] OTHER -> now

RangeEndOf(filters, now) ==
  IF filters.timeRange = "custom" /\ filters.customEndDate # None
  THEN filters.customEndDate[1]
  ELSE now

convertFiltersToOptions(filters, now) ==
  [rangeStart |-> RangeStartOf(filters, now),
   rangeEnd |-> RangeEndOf(filters, now),
   metric |-> filters.metric,
   colorScheme |-> filters.colorScheme,
   includeMerges |-> filters.includeMerges,
   dateSource |-> filters.dateSource,
   filterByAuthor |-> (filters.userFilter # "all"),
   authorEmail |-> IF filters.userFilter = "custom" THEN filters.customUser ELSE None,
   authorName |-> None]

\* generateCacheKey: "heatmap_" + base64(JSON.stringify({...})) of exactly
\* these seven fields; JSON, base64 and toISOString are one to one, so the
\* key is modelled by the record that is serialized
generateCacheKey(options) ==
  [rangeStart |-> options.rangeStart,
   rangeEnd |-> options.rangeEnd,
   metric |-> options.metric,
   colorScheme |-> options.colorScheme,
   includeMerges |-> options.includeMerges,
   dateSource |-> options.dateSource,
   filterByAuthor |-> options.filterByAuthor]

\* the filter selections passed by the callers of overlapping calls
FilterInputs ==
  { Filter("month", None, None, "all", None, FALSE, "committer", "github", "commits"),
    Filter("custom", Some(Day(-2)), Some(Day(0) + Hour(12)), "custom", Some("alice@x"),
           FALSE, "committer", "github", "commits"),
    Filter("custom", Some(Day(-2)), Some(Day(0) + Hour(12)), "custom", Some("bob@x"),
           FALSE, "committer", "github", "commits") }

\* the filter selections passed to a single call
AggregateInputs ==
  FilterInputs \cup
  { Filter("month", None, None, "current", None, FALSE, "committer", "github", "commits"),
    Filter("month", None, None, "all", None, TRUE, "committer", "github", "commits"),
    Filter("month", None, None, "all", None, FALSE, "author", "blue", "commits"),
    Filter("custom", Some(Day(-1)), None, "all", None, FALSE, "committer", "github", "added"),
    Filter("custom", Some(Day(-2)), Some(Day(-1) + Hour(1)), "custom", Some("carol@x"),
           TRUE, "committer", "github", "commits"),
    Filter("quarter", None, None, "all", None, FALSE, "committer", "github", "commits"),
    Filter("halfYear", None, None, "current", None, FALSE, "committer", "github", "commits"),
    Filter("year", None, None, "all", None, FALSE, "committer", "github", "commits"),
    Filter("custom", Some(Day(-2)), Some(Day(0) + Hour(12)), "all", None,
           FALSE, "author", "github", "commits"),
    Filter("custom", None, Some(Day(-1)), "all", None, FALSE, "committer", "github", "commits"),
    Filter("custom", None, None, "custom", Some(""), FALSE, "committer", "github", "commits") }

-----------------------------------------------------------------------------
(* getCommitsForRepository: the git log query and the parsing of its lines *)

\* the --author value with user.name taken before user.email
AuthorFilterNameFirst(options, gitUser) ==
  IF ~options.filterByAuthor THEN ""
  ELSE IF options.authorEmail # None /\ options.authorEmail[1] # "" THEN options.authorEmail[1]
  ELSE IF gitUser.name # "" THEN gitUser.name
  ELSE IF gitUser.email # "" THEN gitUser.email
  ELSE ""

\* the --author value: custom author, else user.email, else user.name, else
\* no filter ("")
AuthorFilter(options, gitUser) ==
  IF ~options.filterByAuthor THEN ""
  ELSE IF options.authorEmail # None /\ options.authorEmail[1] # "" THEN options.authorEmail[1]
  ELSE IF gitUser.email # "" THEN gitUser.email
  ELSE IF gitUser.name # "" THEN gitUser.name
  ELSE ""

\* git reads a date given without a time of day ("YYYY-MM-DD") as that day,
\* in the local zone, at the current local time of day
ApproxDate(day, now) == InstantOf(Day(day) + (LocalTime(now) % SecPerDay))

\* --since="<since>" and --until="<untilStr>"
SinceOf(options) == IsoDate(options.rangeStart)
UntilOf(options) == IsoDate(AddDays(options.rangeEnd, 1))

\* git matches --author against "name <email>"
AuthorMatches(pattern, c) == pattern = c.ae \/ <<pattern>> = c.an

\* git log limits by committer date whatever the --pretty format prints
Selected(c, options, gitUser, now) ==
  /\ options.includeMerges \/ ~c.merge
  /\ AuthorFilter(options, gitUser) = "" \/ AuthorMatches(AuthorFilter(options, gitUser), c)
  /\ c.cd >= ApproxDate(SinceOf(options), now)
  /\ c.cd <= ApproxDate(UntilOf(options), now)

TxtAll(tokens) == [i \in 1..Len(tokens) |-> Txt(tokens[i])]

\* one output line of --pretty=format:"%H|%an|<%ad or %cd>|%s", already
\* split at '|'
LogLine(c, options) ==
  <<Txt(c.hash)>> \o TxtAll(c.an)
    \o <<Dt(IF options.dateSource = "author" THEN c.ad ELSE c.cd)>>
    \o TxtAll(c.subj)

\* stdout of the git log command run in repoPath, as its lines
GitLogLines(repoPath, options, gitUser, now) ==
  LET log == RepoLog(repoPath)
      keep(c) == Selected(c, options, gitUser, now)
      kept == SelectSeq(log, keep)
  IN [i \in 1..Len(kept) |-> LogLine(kept[i], options)]

\* the parse loop: a line of fewer than four parts is dropped; the message
\* is parts 4.. joined again with '|'
ParsedLine(parts, repoPath) ==
  [hash |-> parts[1].s,
   author |-> parts[2].s,
   date |-> parts[3],
   message |-> SubSeq(parts, 4, Len(parts)),
   repository |-> Basename(repoPath)]

ParseLines(lines, repoPath) ==
  LET wellFormed(parts) == Len(parts) >= 4
      kept == SelectSeq(lines, wellFormed)
  IN [i \in 1..Len(kept) |-> ParsedLine(kept[i], repoPath)]

\* what getCommitsForRepository returns: the parsed commits, or [] when the
\* command fails (its own catch swallows the error)
CommitsForRepository(ok, repoPath, options, gitUser, now) ==
  IF ok THEN ParseLines(GitLogLines(repoPath, options, gitUser, now), repoPath)
  ELSE <<>>

-----------------------------------------------------------------------------
(* getHeatmapData: aggregation, cells, dataset *)

\* new Date(commit.date) is a valid date (toISOString does not throw)
ValidDate(commit) == commit.date.k = "date"

\* allCommits.set(dateStr, 1): the count is set, not incremented
CountAfterSet(counts, dateStr) == 1

\* the count stored for a day when one more commit falls on it
CountAfter(counts, dateStr) == MapGet(counts, dateStr) + 1

\* a per repository day map written over the shared map: the counts of the
\* repository merged last replace those of the earlier repositories
AggregateCommitsOverwriting(acc, repoCommits) ==
  LET bad == {i \in 1..Len(repoCommits) : repoCommits[i].date.k # "date"}
      n == IF bad = {} THEN Len(repoCommits)
           ELSE (CHOOSE i \in bad : \A j \in bad : i <= j) - 1
      days == {IsoDate(repoCommits[i].date.t) : i \in 1..n}
      repoCount(d) == Cardinality({i \in 1..n : IsoDate(repoCommits[i].date.t) = d})
  IN [counts |-> [d \in (DOMAIN acc.counts) \cup days |->
                    IF d \in days THEN repoCount(d) ELSE acc.counts[d]],
      details |-> acc.details \o SubSeq(repoCommits, 1, n),
      threw |-> bad # {}]

\* the inner for loop over repoCommits, inside the try of the repository
\* loop: acc = [counts, details, threw]; a commit whose date does not parse
\* makes toISOString throw, which ends the loop for this repository
RECURSIVE AggregateCommits(_, _)
AggregateCommits(acc, repoCommits) ==
  IF repoCommits = <<>> THEN acc
  ELSE LET commit == Head(repoCommits)
       IN IF ~ValidDate(commit)
          THEN [acc EXCEPT !.threw = TRUE]
          ELSE LET dateStr == IsoDate(commit.date.t)
               IN AggregateCommits(
                    [acc EXCEPT !.counts = MapSet(acc.counts, dateStr, CountAfter(acc.counts, dateStr)),
                                !.details = Append(acc.details, commit)],
                    Tail(repoCommits))

\* while (currentDate <= endDate) { cells.push(...); setDate(+1) }: the
\* loop runs once for each i >= 0 with currentDate + i calendar days <=
\* endDate, and its round i + 1 sees currentDate moved on by i calendar days
CellsFrom(currentDate, endDate, counts) ==
  LET most == IF currentDate <= endDate
              THEN (endDate - currentDate) \div SecPerDay + 2
              ELSE 0
      rounds == {i \in 0..most : AddDays(currentDate, i) <= endDate}
      dateStr(i) == IsoDate(AddDays(currentDate, i - 1))
  IN [i \in 1..Cardinality(rounds) |->
        [date |-> dateStr(i), commits |-> MapGet(counts, dateStr(i))]]

BuildCells(options, counts) == CellsFrom(options.rangeStart, options.rangeEnd, counts)

\* a.localeCompare(b) < 0 for two dates printed by --date=iso-strict-local
\* ("YYYY-MM-DDTHH:MM:SS+hh:mm", the wall clock reading and the offset of
\* the local zone at that instant): by wall clock reading, then by the
\* offset text (the offsets of one zone have one sign)
DateStrLess(a, b) ==
  \/ LocalTime(a.t) < LocalTime(b.t)
  \/ /\ LocalTime(a.t) = LocalTime(b.t)
     /\ (IF TzAt(a.t) < 0 THEN 0 - TzAt(a.t) ELSE TzAt(a.t))
          < (IF TzAt(b.t) < 0 THEN 0 - TzAt(b.t) ELSE TzAt(b.t))

\* allCommitDetails.sort((a, b) => b.date.localeCompare(a.date)): a stable
\* sort, greatest date string first
RECURSIVE SortByDateDesc(_)
SortByDateDesc(s) ==
  IF s = <<>> THEN <<>>
  ELSE LET sorted == SortByDateDesc(SubSeq(s, 1, Len(s) - 1))
           x == s[Len(s)]
           ahead == {i \in 1..Len(sorted) : ~DateStrLess(sorted[i].date, x.date)}
           n == Cardinality(ahead)
       IN SubSeq(sorted, 1, n) \o <<x>> \o SubSeq(sorted, n + 1, Len(sorted))

\* a reduce that counts the days with commits: acc + (cell.commits ? 1 : 0)
TotalCommitsCountingDays(cells) == Cardinality({i \in 1..Len(cells) : cells[i].commits > 0})

\* cells.reduce((acc, cell) => acc + cell.commits, 0)
TotalCommits(cells) == SumSeq([i \in 1..Len(cells) |-> cells[i].commits])

Summary(repositories, totalCommits, options) ==
  [repositories |-> repositories,
   totalCommits |-> totalCommits,
   rangeStart |-> IsoDate(options.rangeStart),
   rangeEnd |-> IsoDate(options.rangeEnd),
   metric |-> options.metric,
   colorScheme |-> options.colorScheme]

BuildDataset(options, repositories, counts, details) ==
  LET cells == BuildCells(options, counts)
  IN [cells |-> cells,
      allCommits |-> SortByDateDesc(details),
      summary |-> Summary(Len(repositories), TotalCommits(cells), options)]

createEmptyDataset(options) ==
  [cells |-> <<>>,
   allCommits |-> <<>>,
   summary |-> Summary(0, 0, options)]

-----------------------------------------------------------------------------
(* discoverRepositories *)

RECURSIVE ScanFolders(_)
ScanFolders(folders) ==
  IF folders = <<>> THEN <<>>
  ELSE LET folderPath == Head(folders)
           own == IF FolderIsRepo(folderPath) THEN <<folderPath>> ELSE <<>>
           notSelf(repo) == repo # folderPath
           filteredNestedRepos == SelectSeq(FindGitDirs(folderPath), notSelf)
       IN own \o filteredNestedRepos \o ScanFolders(Tail(folders))

\* the list discoverRepositories returns when git is available
DiscoveredRepositories(h) ==
  IF ~h.hasFolders THEN <<>> ELSE Dedupe(ScanFolders(h.folders))

\* child processes discoverRepositories spawns: git --version, then per
\* folder git rev-parse and find
DiscoveryProcesses(h) ==
  IF ~h.hasFolders THEN 0
  ELSE IF ~h.gitAvailable THEN 1
  ELSE 1 + 2 * Len(h.folders)

-----------------------------------------------------------------------------
(* The cache: getCachedData / setCachedData / clearCache *)

\* an entry exactly CACHE_DURATION old counts as expired
ExpiredAtLimit(entry, now) == now - entry.timestamp >= CACHE_DURATION

\* now - cached.timestamp > this.CACHE_DURATION
Expired(entry, now) == now - entry.timestamp > CACHE_DURATION

\* the cache is consulted whatever forceRefresh is
ChecksCacheAlways(forceRefresh) == TRUE

\* getHeatmapData consults the cache: if (!forceRefresh)
ChecksCache(forceRefresh) == ~forceRefresh

\* what getCachedData leaves in this.cache: an expired entry is deleted
CacheAfterGet(cache, cacheKey, now) ==
  IF cacheKey \in DOMAIN cache /\ Expired(cache[cacheKey], now)
  THEN MapDelete(cache, cacheKey)
  ELSE cache

\* getCachedData returns an entry's data (not null)
CacheHit(cache, cacheKey, now) ==
  cacheKey \in DOMAIN cache /\ ~Expired(cache[cacheKey], now)

\* this.cache.set(cacheKey, {data, timestamp: Date.now()})
CacheAfterSet(cache, cacheKey, data, now) ==
  MapSet(cache, cacheKey, [data |-> data, timestamp |-> now])

\* a put that leaves the durable tier alone
GlobalStateUnwritten(globalState, cacheKey, data, now) == globalState

\* this.context.globalState.update(cacheKey, {data, timestamp: Date.now()});
\* the service of activate() is constructed with the extension context
GlobalStateAfterSet(globalState, cacheKey, data, now) ==
  MapSet(globalState, cacheKey, [data |-> data, timestamp |-> now])

\* clearCache: this.cache.clear()
CacheAfterClear(cache) == EmptyMap

\* clearCache that leaves the durable tier alone
GlobalStateKept(globalState) == globalState

\* clearCache: globalState.update(key, undefined) for every key of
\* globalState.keys() that starts with "heatmap_" (every cache key does)
GlobalStateAfterClear(globalState) == EmptyMap

-----------------------------------------------------------------------------
(* Saved filter settings: saveFilterSettings / loadFilterSettings /
   clearSavedFilterSettings, on context.workspaceState *)

\* getDefaultFilterOptions with the default values of the configuration; the
\* object has no customStartDate, customEndDate or customUser
getDefaultFilterOptions ==
  Filter("halfYear", None, None, "current", None, FALSE, "committer", "github", "commits")

\* the object saveFilterSettings stores under "gitHeatmap.savedFilters"
SavedRecord(filters, now) ==
  [timeRange |-> filters.timeRange,
   userFilter |-> filters.userFilter,
   customUser |-> filters.customUser,
   includeMerges |-> filters.includeMerges,
   dateSource |-> filters.dateSource,
   colorScheme |-> filters.colorScheme,
   metric |-> filters.metric,
   timestamp |-> now]

\* workspaceState after saveFilterSettings(filters)
MementoAfterSave(memento, filters, now) == Some(SavedRecord(filters, now))

\* workspaceState after clearSavedFilterSettings(): update(key, undefined)
MementoAfterClear(memento) == None

\* savedSettings.customUser ?? defaultSettings.customUser
OrDefault(saved, default) == IF saved # None THEN saved ELSE default

\* loadFilterSettings(): the saved settings merged over the defaults, or the
\* defaults when nothing is saved
loadFilterSettings(memento) ==
  IF memento = None THEN getDefaultFilterOptions
  ELSE LET savedSettings == memento[1]
           defaultSettings == getDefaultFilterOptions
       IN Filter(savedSettings.timeRange, None, None,
                 savedSettings.userFilter,
                 OrDefault(savedSettings.customUser, defaultSettings.customUser),
                 savedSettings.includeMerges, savedSettings.dateSource,
                 savedSettings.colorScheme, savedSettings.metric)

\* the Filter Selections passed to saveFilterSettings
SavedInputs ==
  { Filter("month", None, None, "all", None, TRUE, "author", "blue", "added"),
    Filter("year", None, None, "custom", Some("bob@x"), FALSE, "committer", "github", "commits"),
    Filter("custom", Some(Day(-2)), Some(Day(0)), "current", None, FALSE, "committer", "github", "commits") }

-----------------------------------------------------------------------------
(* HeatmapPanel *)

\* { ...this.currentFilters, ...filters } for a partial Filter Selection
MergeFilters(currentFilters, filters) ==
  [k \in DOMAIN currentFilters |->
     IF k \in DOMAIN filters THEN filters[k] ELSE currentFilters[k]]

\* the webview's copy of the filters, after "filtersInitialized":
\* { ...currentFilters, ...filters } over its own initial state, which has
\* customUser: "" and neither metric nor custom dates
WebviewFilters(filters) ==
  [timeRange |-> filters.timeRange,
   userFilter |-> filters.userFilter,
   customUser |-> OrDefault(filters.customUser, Some("")),
   colorScheme |-> filters.colorScheme,
   dateSource |-> filters.dateSource,
   includeMerges |-> filters.includeMerges]

\* what the user changes in the webview's filter controls
Edits ==
  { [userFilter |-> "all"],
    [userFilter |-> "custom", customUser |-> Some("bob@x")],
    [colorScheme |-> "blue"] }

\* the payload of the "updateFilters" message posted after an edit: the
\* colour scheme alone for a change of the colour scheme, and the webview's
\* whole copy of the filters for every other control
WebviewPayload(filters, edit) ==
  IF DOMAIN edit = {"colorScheme"} THEN edit
  ELSE MergeFilters(WebviewFilters(filters), edit)

-----------------------------------------------------------------------------
(* State *)


VARIABLES
  now,          \* Date.now()
  ticks,        \* how often the clock has advanced
  clears,       \* how often clearCache has run
  budget,       \* how many calls the callers make in this behaviour
  inputs,       \* the filter selections the callers pass in this behaviour
  cache,        \* RepositoryService.cache : cacheKey -> {data, timestamp}
  globalState,  \* context.globalState : cacheKey -> {data, timestamp}
  written,      \* history: for each key ever put, the options it was put for
                \* and the number of clearCache calls before the put
  pc,           \* per call of getFilteredHeatmapData: where it is suspended
  req,          \* per call: its arguments, options and cache key
  work,         \* per call: the locals of getHeatmapData
  out,          \* per call: what it returned, and history of what it did
  settings,     \* context.workspaceState["gitHeatmap.savedFilters"], and
                \* history: the Filter Selection of the latest save
  panel,        \* HeatmapPanel: currentFilters, the surfaced dataset, the
                \* latest getCommitsForDate request
  statusBar     \* activate()'s statusBarActivity and every GitActivityStatusBar
                \* constructed: their timers and watchers, what they reported

vars == <<host, now, ticks, clears, budget, inputs, cache, globalState, written, pc, req, work, out, settings, panel, statusBar>>

NoFilter == Filter("month", None, None, "all", None, FALSE, "committer", "github", "commits")

NoReq ==
  [filters |-> NoFilter, forceRefresh |-> FALSE,
   options |-> convertFiltersToOptions(NoFilter, 0),
   cacheKey |-> generateCacheKey(convertFiltersToOptions(NoFilter, 0))]

NoWork ==
  [repositories |-> <<>>, gitUser |-> [email |-> "", name |-> ""], idx |-> 0,
   counts |-> EmptyMap, details |-> <<>>, errorCount |-> 0]

NoOut ==
  [result |-> createEmptyDataset(convertFiltersToOptions(NoFilter, 0)),
   fromCache |-> FALSE,      \* the dataset came from getCachedData
   servedFor |-> convertFiltersToOptions(NoFilter, 0),
                             \* the options the served entry was computed for
   discovered |-> FALSE,     \* discoverRepositories has run for this call
   processes |-> 0,          \* child processes spawned for this call
   queried |-> <<>>,         \* per repository: the --author value of the query,
                             \* did git log succeed, what was returned
   threwIn |-> {},           \* repositories whose aggregation loop threw
   warnings |-> 0,           \* showWarningMessage calls
   doneAt |-> 0, clearsAt |-> 0]

\* nothing saved
NoSettings == [memento |-> None, lastSaved |-> None]

\* no panel
NoPanel ==
  [open |-> FALSE,          \* HeatmapPanel.instance is defined
   updates |-> 0,           \* updateFilters messages handled so far
   currentFilters |-> getDefaultFilterOptions,
   shown |-> 0,             \* the call whose dataset is currentDataset, 0: none
   loading |-> FALSE,       \* isLoading of the latest "loading" message
   payload |-> None,        \* history: the latest updateFilters payload
   detail |-> None]         \* the latest getCommitsForDate request, with
                            \* history: the call whose dataset was surfaced

\* the extension is not activated
NoStatusBar ==
  [activated |-> FALSE,
   instance |-> 0,          \* statusBarActivity: the instance held, 0: undefined
   made |-> 0,              \* instances constructed so far
   timers |-> {},           \* instances whose interval timer is set
   watchers |-> {},         \* instances whose workspace and save watchers are
                            \* subscribed
   debounce |-> {},         \* instances with a debounce timer pending
   disposed |-> {},         \* instances dispose() was called on
   late |-> {},             \* history: instances for which updateActivity was
                            \* started after their dispose()
   runs |-> [c \in CallIds |-> 0],
                            \* history, per call: the instance whose
                            \* updateActivity made it (0: another caller)
   reports |-> [c \in CallIds |-> [activity |-> <<>>, today |-> 0, week |-> 0]]]
                            \* history, per call: what updateActivity computed

InitCaches ==
  /\ ticks = 0
  /\ clears = 0
  /\ cache = EmptyMap
  /\ globalState = EmptyMap
  /\ written = EmptyMap
  /\ pc = [c \in CallIds |-> "idle"]
  /\ req = [c \in CallIds |-> NoReq]
  /\ work = [c \in CallIds |-> NoWork]
  /\ out = [c \in CallIds |-> NoOut]
  /\ settings = NoSettings
  /\ panel = NoPanel
  /\ statusBar = NoStatusBar

InitService ==
  /\ now = StartInstant
  /\ InitCaches

\* two calls, which may overlap, on the hosts with at most one repository
\* and no transition of the zone
Init ==
  /\ host \in {h \in Hosts : Len(DiscoveredRepositories(h)) <= 1 /\ h.tzBefore = h.tz}
  /\ budget = MaxCalls
  /\ inputs = FilterInputs
  /\ InitService

\* one call on every host
InitAggregate ==
  /\ host \in Hosts
  /\ budget = 1
  /\ inputs = AggregateInputs
  /\ InitService

\* setCachedData(cacheKey, data), with the history of the put; stored: the
\* write globalState.update starts is carried out (its Thenable resolves)
SetCachedData(c, cacheKey, data, stored) ==
  /\ cache' = CacheAfterSet(cache, cacheKey, data, now)
  /\ globalState' = IF stored THEN GlobalStateAfterSet(globalState, cacheKey, data, now)
                    ELSE globalState
  /\ written' = MapSet(written, cacheKey,
                       [options |-> req[c].options, clears |-> clears, by |-> c,
                        stored |-> stored])

\* the call returns data
Return(c, data, o) ==
  /\ pc' = [pc EXCEPT ![c] = "done"]
  /\ out' = [out EXCEPT ![c] = [o EXCEPT !.result = data, !.doneAt = now,
                                         !.clearsAt = clears]]

\* a rejected write thrown in setCachedData, as if the update were awaited
UpdateThrowsWhenRejected(stored) == ~stored

\* this.context.globalState.update(...) is neither awaited nor caught: a
\* rejected write does not throw in setCachedData
UpdateThrows(stored) == FALSE

\* this.setCachedData(cacheKey, data); ...; return data
CacheAndReturn(c, data, o) ==
  \E stored \in BOOLEAN :
    /\ SetCachedData(c, req[c].cacheKey, data, stored)
    /\ IF UpdateThrows(stored)
       THEN /\ pc' = [pc EXCEPT ![c] = "threw"]
            /\ out' = [out EXCEPT ![c] = o]
       ELSE Return(c, data, o)

-----------------------------------------------------------------------------
(* Actions *)

\* errorCount++ in the catch of the repository loop
ErrorCountAfter(errorCount, threw) == IF threw THEN errorCount + 1 ELSE errorCount

\* if (errorCount > 0) showWarningMessage(...)
WarningsShown(errorCount) == IF errorCount > 0 THEN 1 ELSE 0

\* getFilteredHeatmapData(filters, forceRefresh) up to its first await:
\* convertFiltersToOptions, generateCacheKey, the cache check
\* (what it does to req, cache, pc and out)
getFilteredHeatmapData(c, filters, forceRefresh) ==
  /\ pc[c] = "idle"
  /\ c <= budget
  /\ IF c = 1 THEN TRUE ELSE pc[c - 1] # "idle"
  /\ LET options == convertFiltersToOptions(filters, now)
         cacheKey == generateCacheKey(options)
         r == [filters |-> filters, forceRefresh |-> forceRefresh,
               options |-> options, cacheKey |-> cacheKey]
     IN /\ req' = [req EXCEPT ![c] = r]
        /\ IF ChecksCache(forceRefresh)
           THEN /\ cache' = CacheAfterGet(cache, cacheKey, now)
                /\ IF CacheHit(cache, cacheKey, now)
                   THEN Return(c, cache[cacheKey].data,
                               [out[c] EXCEPT !.fromCache = TRUE,
                                              !.servedFor = written[cacheKey].options])
                   ELSE /\ pc' = [pc EXCEPT ![c] = "discover"]
                        /\ out' = out
           ELSE /\ cache' = cache
                /\ pc' = [pc EXCEPT ![c] = "discover"]
                /\ out' = out

\* a call of getFilteredHeatmapData by a caller other than the panel
GetFilteredHeatmapData(c, filters, forceRefresh) ==
  /\ getFilteredHeatmapData(c, filters, forceRefresh)
  /\ UNCHANGED <<host, now, ticks, clears, budget, inputs, globalState, written, work, settings, panel, statusBar>>

\* await this.discoverRepositories() returns or throws; with no repository
\* the empty dataset is cached and returned
DiscoverRepositories(c) ==
  /\ pc[c] = "discover"
  /\ LET o == [out[c] EXCEPT !.discovered = TRUE,
                             !.processes = @ + DiscoveryProcesses(host)]
         repositories == DiscoveredRepositories(host)
     IN IF host.hasFolders /\ ~host.gitAvailable
        THEN /\ pc' = [pc EXCEPT ![c] = "threw"]
             /\ out' = [out EXCEPT ![c] = o]
             /\ UNCHANGED <<cache, globalState, written, work>>
        ELSE IF repositories = <<>>
        THEN /\ CacheAndReturn(c, createEmptyDataset(req[c].options), o)
             /\ UNCHANGED work
        ELSE /\ pc' = [pc EXCEPT ![c] = "userinfo"]
             /\ work' = [work EXCEPT ![c].repositories = repositories]
             /\ out' = [out EXCEPT ![c] = o]
             /\ UNCHANGED <<cache, globalState, written>>
  /\ UNCHANGED <<host, now, ticks, clears, budget, inputs, req, settings, panel, statusBar>>

\* await this.getGitUserInfo() returns
GetGitUserInfo(c) ==
  /\ pc[c] = "userinfo"
  /\ pc' = [pc EXCEPT ![c] = "repos"]
  /\ work' = [work EXCEPT ![c].gitUser = host.gitUser, ![c].idx = 1]
  /\ out' = [out EXCEPT ![c].processes = @ + 2]
  /\ UNCHANGED <<host, now, ticks, clears, budget, inputs, cache, globalState, written, req, settings, panel, statusBar>>

\* one round of the repository loop: await getCommitsForRepository(repoPath)
\* returns (ok: the git log command succeeded, which it can only in a
\* repository), its commits are aggregated;
\* after the last repository the dataset is built, cached and returned
GetCommitsForRepository(c, ok) ==
  /\ pc[c] = "repos"
  /\ ok => FolderIsRepo(work[c].repositories[work[c].idx])
  /\ LET w == work[c]
         repoPath == w.repositories[w.idx]
         repoCommits == CommitsForRepository(ok, repoPath, req[c].options, w.gitUser, now)
         acc == AggregateCommits([counts |-> w.counts, details |-> w.details,
                                  threw |-> FALSE], repoCommits)
         w2 == [w EXCEPT !.counts = acc.counts, !.details = acc.details,
                         !.errorCount = ErrorCountAfter(@, acc.threw),
                         !.idx = @ + 1]
         o == [out[c] EXCEPT !.processes = @ + 1,
                             !.queried = Append(@, [ok |-> ok, commits |-> repoCommits,
                                                    author |-> AuthorFilter(req[c].options, w.gitUser)]),
                             !.threwIn = IF acc.threw THEN @ \cup {repoPath} ELSE @]
         dataset == BuildDataset(req[c].options, w.repositories, w2.counts, w2.details)
     IN /\ work' = [work EXCEPT ![c] = w2]
        /\ IF w.idx < Len(w.repositories)
           THEN /\ out' = [out EXCEPT ![c] = o]
                /\ UNCHANGED <<pc, cache, globalState, written>>
           ELSE CacheAndReturn(c, dataset,
                               [o EXCEPT !.warnings = @ + WarningsShown(w2.errorCount)])
  /\ UNCHANGED <<host, now, ticks, clears, budget, inputs, req, settings, panel, statusBar>>

\* clearCache()
ClearCache ==
  /\ clears < MaxClears
  /\ clears' = clears + 1
  /\ cache' = CacheAfterClear(cache)
  /\ globalState' = GlobalStateAfterClear(globalState)
  /\ UNCHANGED <<host, now, ticks, budget, inputs, written, pc, req, work, out, settings, panel, statusBar>>

\* how far the clock moves between two steps of the program
ClockSteps == {1, CACHE_DURATION}

\* time passes; the first call is made at StartInstant, and the clock is of
\* no interest once the last call has returned
Tick(d) ==
  /\ ticks < MaxTicks
  /\ pc[1] # "idle"
  /\ \E c \in 1..budget : pc[c] \notin {"done", "threw"}
  /\ ticks' = ticks + 1
  /\ now' = now + d
  /\ UNCHANGED <<host, clears, budget, inputs, cache, globalState, written, pc, req, work, out, settings, panel, statusBar>>

Next ==
  \/ \E c \in CallIds, filters \in inputs, forceRefresh \in BOOLEAN :
       GetFilteredHeatmapData(c, filters, forceRefresh)
  \/ \E c \in CallIds : DiscoverRepositories(c)
  \/ \E c \in CallIds : GetGitUserInfo(c)
  \/ \E c \in CallIds, ok \in BOOLEAN : GetCommitsForRepository(c, ok)
  \/ ClearCache
  \/ \E d \in ClockSteps : Tick(d)

Spec == Init /\ [][Next]_vars

SpecAggregate == InitAggregate /\ [][Next]_vars

-----------------------------------------------------------------------------
(* The panel and the saved settings as callers of the service *)

MaxUpdates == 1          \* updateFilters messages in one behaviour

\* HeatmapPanel.createOrShow with no instance: the constructor loads the
\* saved filters
OpenPanel ==
  /\ ~panel.open
  /\ panel' = [NoPanel EXCEPT !.open = TRUE,
                              !.currentFilters = loadFilterSettings(settings.memento)]
  /\ UNCHANGED <<host, now, ticks, clears, budget, inputs, cache, globalState, written, pc, req, work, out, settings, statusBar>>

\* refresh(forceRefresh) up to the await of getFilteredHeatmapData(
\* this.currentFilters, forceRefresh), as it changes the service: loading(true)
\* was posted, then the service is called with the current filters
refresh(c, currentFilters, forceRefresh) ==
  getFilteredHeatmapData(c, currentFilters, forceRefresh)

\* filterKeys.some((key) => key !== "colorScheme")
NeedsRefreshAlways(filters) == DOMAIN filters # {}

NeedsRefresh(filters) == \E key \in DOMAIN filters : key # "colorScheme"

\* updateFilters(filters) up to its await: merge, save, and when the payload
\* has a key other than colorScheme the refresh it awaits
UpdateFilters(filters) ==
  /\ panel.open
  /\ panel.updates < MaxUpdates
  /\ LET merged == MergeFilters(panel.currentFilters, filters)
     IN /\ settings' = [memento |-> MementoAfterSave(settings.memento, merged, now),
                        lastSaved |-> Some(merged)]
        /\ IF NeedsRefresh(filters)
           THEN /\ panel' = [panel EXCEPT !.currentFilters = merged, !.updates = @ + 1,
                                          !.payload = Some(filters), !.loading = TRUE]
                /\ \E c \in CallIds : refresh(c, merged, FALSE)
           ELSE /\ panel' = [panel EXCEPT !.currentFilters = merged, !.updates = @ + 1,
                                          !.payload = Some(filters)]
                /\ UNCHANGED <<cache, pc, req, out>>
  /\ UNCHANGED <<host, now, ticks, clears, budget, inputs, globalState, written, work, statusBar>>

\* refresh(forceRefresh) on a "ready" or "refresh" message, or by the refresh
\* command
Refresh(c, forceRefresh) ==
  /\ panel.open
  /\ panel' = [panel EXCEPT !.loading = TRUE]
  /\ refresh(c, panel.currentFilters, forceRefresh)
  /\ UNCHANGED <<host, now, ticks, clears, budget, inputs, globalState, written, work, settings, statusBar>>

\* refresh after its await returned: this.currentDataset = dataset, and the
\* dataset is posted to the webview
RefreshReturns(c) ==
  /\ pc[c] = "done"
  /\ pc' = [pc EXCEPT ![c] = "shown"]
  /\ panel' = [panel EXCEPT !.shown = c, !.loading = FALSE]
  /\ UNCHANGED <<host, now, ticks, clears, budget, inputs, cache, globalState, written, req, work, out, settings, statusBar>>

\* refresh after its await threw: loading(false) and the error are posted,
\* currentDataset stays
RefreshFails(c) ==
  /\ pc[c] = "threw"
  /\ pc' = [pc EXCEPT ![c] = "failed"]
  /\ panel' = [panel EXCEPT !.loading = FALSE]
  /\ UNCHANGED <<host, now, ticks, clears, budget, inputs, cache, globalState, written, req, work, out, settings, statusBar>>

\* the days of the surfaced dataset that show commits
ShownDays ==
  IF panel.shown = 0 THEN {}
  ELSE LET cells == out[panel.shown].result.cells
       IN {cells[i].date : i \in {j \in 1..Len(cells) : cells[j].commits > 0}}

\* the days clicked in the surfaced heatmap: the latest day that shows commits
ClickedDays == {d \in ShownDays : \A e \in ShownDays : e <= d}

\* sendCommitsForDate(date) up to its await: the request it makes of
\* repositoryService.getCommitsForDate(date, this.currentFilters), for a day
\* clicked in the surfaced heatmap
SendCommitsForDate(date) ==
  /\ panel.open
  /\ date \in ClickedDays
  /\ panel' = [panel EXCEPT !.detail = Some([date |-> date,
                                             filters |-> panel.currentFilters,
                                             shown |-> panel.shown])]
  /\ panel' # panel
  /\ UNCHANGED <<host, now, ticks, clears, budget, inputs, cache, globalState, written, pc, req, work, out, settings, statusBar>>

\* saveFilterSettings(filters), by a session before the panel is created
SaveFilterSettings(filters) ==
  /\ ~panel.open
  /\ settings.lastSaved = None
  /\ settings' = [memento |-> MementoAfterSave(settings.memento, filters, now),
                  lastSaved |-> Some(filters)]
  /\ settings' # settings
  /\ UNCHANGED <<host, now, ticks, clears, budget, inputs, cache, globalState, written, pc, req, work, out, panel, statusBar>>

\* the gitHeatmap.resetFilters command, confirmed: clearSavedFilterSettings,
\* then panel.reloadFilterSettings() up to its await when a panel is open
ResetFilters ==
  /\ settings.memento # None
  /\ settings' = [memento |-> MementoAfterClear(settings.memento), lastSaved |-> None]
  /\ panel' = IF panel.open
              THEN [panel EXCEPT !.currentFilters =
                                   loadFilterSettings(MementoAfterClear(settings.memento))]
              ELSE panel
  /\ UNCHANGED <<host, now, ticks, clears, budget, inputs, cache, globalState, written, pc, req, work, out, statusBar>>

\* the hosts the panel is run on
PanelHosts ==
  { h \in Hosts : h.hasFolders /\ h.folders = <<"/w1">> }

InitPanel ==
  /\ host \in PanelHosts
  /\ budget = MaxCalls
  /\ inputs = SavedInputs
  /\ InitService

\* the continuation of a refresh whose await has settled runs before any
\* other event is handled
Settled == \A c \in CallIds : pc[c] \notin {"done", "threw"}

NextPanel ==
  \/ \E c \in CallIds : RefreshReturns(c)
  \/ \E c \in CallIds : RefreshFails(c)
  \/ Settled /\ OpenPanel
  \/ \E edit \in Edits : Settled /\ UpdateFilters(WebviewPayload(panel.currentFilters, edit))
  \/ \E c \in CallIds, forceRefresh \in BOOLEAN : Settled /\ Refresh(c, forceRefresh)
  \/ \E c \in CallIds : Settled /\ DiscoverRepositories(c)
  \/ \E c \in CallIds : Settled /\ GetGitUserInfo(c)
  \/ \E c \in CallIds, ok \in BOOLEAN : Settled /\ GetCommitsForRepository(c, ok)
  \/ \E date \in ClickedDays : Settled /\ SendCommitsForDate(date)
  \/ \E filters \in inputs : Settled /\ SaveFilterSettings(filters)
  \/ Settled /\ ResetFilters

SpecPanel == InitPanel /\ [][NextPanel]_vars

-----------------------------------------------------------------------------
(* GitActivityStatusBar and the handlers of activate() that make and dispose it *)

DAYS_TO_SHOW == 7

MaxInstances == 2        \* GitActivityStatusBar instances in one behaviour

\* getLast7DaysActivity: endDate = new Date(), startDate = endDate moved back
\* DAYS_TO_SHOW - 1 calendar days, and the filters it requests
Last7DaysFilters(endDate) ==
  Filter("custom", Some(AddDays(endDate, 0 - (DAYS_TO_SHOW - 1))), Some(endDate),
         "current", None, FALSE, "committer", "github", "commits")

\* formatLocalDate(currentDate) in round i of the loop: startDate moved on by
\* i calendar days, as year-month-day of the local zone
FormatLocalDate(startDate, i) == LocalDate(AddDays(startDate, i))

\* dataset.cells.find((c) => c.date === dateStr)?.commits || 0
CellCommits(cells, dateStr) ==
  LET found == {n \in 1..Len(cells) : cells[n].date = dateStr}
  IN IF found = {} THEN 0 ELSE cells[CHOOSE n \in found : \A m \in found : n <= m].commits

\* the dailyActivity list getLast7DaysActivity returns for a dataset
DailyActivity(dataset, startDate) ==
  [i \in 1..DAYS_TO_SHOW |->
     [date |-> FormatLocalDate(startDate, i - 1),
      commits |-> CellCommits(dataset.cells, FormatLocalDate(startDate, i - 1))]]

\* updateActivity after getLast7DaysActivity returned: todayCommits and
\* weekCommits, with today = formatLocalDate(new Date()) at instant date
ActivityReport(dataset, startDate, date) ==
  LET activityData == DailyActivity(dataset, startDate)
      today == LocalDate(date)
      todayData == {i \in 1..DAYS_TO_SHOW : activityData[i].date = today}
  IN [activity |-> activityData,
      today |-> IF todayData = {} THEN 0
                ELSE activityData[CHOOSE i \in todayData : \A j \in todayData : i <= j].commits,
      week |-> SumSeq([i \in 1..DAYS_TO_SHOW |-> activityData[i].commits])]

\* dispose(): clearInterval(this.updateTimer), statusBarItem.dispose(); the
\* watchers were pushed to context.subscriptions and stay subscribed
WatchersAfterDispose(bar, n) == bar.watchers

\* the status bar after instance n's dispose()
StatusBarAfterDispose(bar, n) ==
  [bar EXCEPT !.timers = @ \ {n},
              !.watchers = WatchersAfterDispose(bar, n),
              !.disposed = @ \cup {n}]

\* updateActivity() of instance n up to its await: getLast7DaysActivity calls
\* getFilteredHeatmapData (call c) with the filters of the last 7 days
UpdateActivity(bar, n, c) ==
  /\ getFilteredHeatmapData(c, Last7DaysFilters(now), FALSE)
  /\ statusBar' = [bar EXCEPT !.runs[c] = n,
                              !.late = IF n \in bar.disposed THEN @ \cup {n} ELSE @]
  /\ UNCHANGED <<host, now, ticks, clears, budget, inputs, globalState, written, work, settings, panel>>

\* new GitActivityStatusBar(context, repositoryService): the item is shown,
\* updateActivity() is started, setupAutoUpdate() sets the interval timer
\* and subscribes the two watchers
Construct(bar, c) ==
  LET n == bar.made + 1
  IN /\ n <= MaxInstances
     /\ UpdateActivity([bar EXCEPT !.instance = n, !.made = n,
                                   !.timers = @ \cup {n},
                                   !.watchers = @ \cup {n}], n, c)

\* activate(context): the status bar is made when statusBar.enabled is set
Activate(enabled, c) ==
  /\ ~statusBar.activated
  /\ IF enabled
     THEN Construct([statusBar EXCEPT !.activated = TRUE], c)
     ELSE /\ statusBar' = [statusBar EXCEPT !.activated = TRUE]
          /\ UNCHANGED <<host, now, ticks, clears, budget, inputs, cache, globalState, written, pc, req, work, out, settings, panel>>

\* configChangeHandler for a change of gitHeatmap.statusBar.enabled
ConfigChangeEnabled(newEnabled, c) ==
  /\ statusBar.activated
  /\ IF newEnabled /\ statusBar.instance = 0
     THEN Construct(statusBar, c)
     ELSE /\ ~newEnabled /\ statusBar.instance # 0
          /\ statusBar' = [StatusBarAfterDispose(statusBar, statusBar.instance)
                             EXCEPT !.instance = 0]
          /\ UNCHANGED <<host, now, ticks, clears, budget, inputs, cache, globalState, written, pc, req, work, out, settings, panel>>

\* configChangeHandler for a change of gitHeatmap.statusBar.displayMode
ConfigChangeDisplayMode(c) ==
  /\ statusBar.activated
  /\ statusBar.instance # 0
  /\ UpdateActivity(statusBar, statusBar.instance, c)

\* the interval timer of instance n fires
IntervalFires(n, c) ==
  /\ n \in statusBar.timers
  /\ UpdateActivity(statusBar, n, c)

\* onDidChangeWorkspaceFolders calls the watcher of instance n
WorkspaceFoldersChange(n, c) ==
  /\ n \in statusBar.watchers
  /\ UpdateActivity(statusBar, n, c)

\* onDidSaveTextDocument calls the watcher of instance n: debouncedUpdate()
\* sets the 2 second timer anew
SaveTextDocument(n) ==
  /\ n \in statusBar.watchers
  /\ n \notin statusBar.debounce
  /\ statusBar' = [statusBar EXCEPT !.debounce = @ \cup {n}]
  /\ UNCHANGED <<host, now, ticks, clears, budget, inputs, cache, globalState, written, pc, req, work, out, settings, panel>>

\* the debounce timer of instance n fires
DebounceFires(n, c) ==
  /\ n \in statusBar.debounce
  /\ UpdateActivity([statusBar EXCEPT !.debounce = @ \ {n}], n, c)

\* updateActivity after its await returned: the daily counts are computed
\* from the dataset and shown
UpdateActivityReturns(c) ==
  /\ pc[c] = "done"
  /\ pc' = [pc EXCEPT ![c] = "reported"]
  /\ statusBar' = [statusBar EXCEPT !.reports[c] =
                     ActivityReport(out[c].result, req[c].filters.customStartDate[1], now)]
  /\ UNCHANGED <<host, now, ticks, clears, budget, inputs, cache, globalState, written, req, work, out, settings, panel>>

\* updateActivity after its await threw: the warning sign is shown
UpdateActivityFails(c) ==
  /\ pc[c] = "threw"
  /\ pc' = [pc EXCEPT ![c] = "failed"]
  /\ UNCHANGED <<host, now, ticks, clears, budget, inputs, cache, globalState, written, req, work, out, settings, panel, statusBar>>

\* the hosts the status bar is run on: one for each zone, and one without git
StatusBarHosts ==
  { h \in Hosts : h.folders \in {<<"/w1">>, <<"/w1", "/w2">>, <<"/w1", "/w3">>} }

\* Date.now() at activation: midday and evening, UTC
StatusBarInstants == {StartInstant, Day(0) + Hour(20)}

InitStatusBar ==
  /\ host \in StatusBarHosts
  /\ now \in StatusBarInstants
  /\ budget = MaxCalls
  /\ inputs = {}
  /\ InitCaches

NextStatusBar ==
  \/ \E c \in CallIds : UpdateActivityReturns(c)
  \/ \E c \in CallIds : UpdateActivityFails(c)
  \/ \E enabled \in BOOLEAN, c \in CallIds : Settled /\ Activate(enabled, c)
  \/ \E newEnabled \in BOOLEAN, c \in CallIds : Settled /\ ConfigChangeEnabled(newEnabled, c)
  \/ \E c \in CallIds : Settled /\ ConfigChangeDisplayMode(c)
  \/ \E n \in 1..MaxInstances, c \in CallIds : Settled /\ IntervalFires(n, c)
  \/ \E n \in 1..MaxInstances, c \in CallIds : Settled /\ WorkspaceFoldersChange(n, c)
  \/ \E n \in 1..MaxInstances : Settled /\ SaveTextDocument(n)
  \/ \E n \in 1..MaxInstances, c \in CallIds : Settled /\ DebounceFires(n, c)
  \/ \E c \in CallIds : Settled /\ DiscoverRepositories(c)
  \/ \E c \in CallIds : Settled /\ GetGitUserInfo(c)
  \/ \E c \in CallIds, ok \in BOOLEAN : Settled /\ GetCommitsForRepository(c, ok)

SpecStatusBar == InitStatusBar /\ [][NextStatusBar]_vars

-----------------------------------------------------------------------------
(* Claims *)

Returned(c) == pc[c] = "done"

\* the calendar days rangeStart..rangeEnd, as the dataset's summary names them
DayCount(options) == IsoDate(options.rangeEnd) - IsoDate(options.rangeStart) + 1

DenseCells(cells, options) ==
  /\ Len(cells) = DayCount(options)
  /\ \A i \in 1..Len(cells) : cells[i].date = IsoDate(options.rangeStart) + i - 1

\* C1: every dataset returned for options with rangeStart <= rangeEnd holds
\* exactly one cell per calendar day of the range, in order, whatever the
\* number of repositories, zero included
C1_OneCellPerDay ==
  \A c \in CallIds :
    Returned(c) /\ req[c].options.rangeStart <= req[c].options.rangeEnd
      => DenseCells(out[c].result.cells, req[c].options)

\* C2: in every returned dataset (fresh, cached or empty)
\* summary.totalCommits is the sum of the cells' commits
C2_TotalIsSumOfCells ==
  \A c \in CallIds :
    Returned(c) =>
      out[c].result.summary.totalCommits
        = SumSeq([i \in 1..Len(out[c].result.cells) |-> out[c].result.cells[i].commits])

\* a dataset with several commits on one day was served from the cache
C2_Witness ==
  \E c \in CallIds :
    /\ Returned(c) /\ out[c].fromCache
    /\ \E i \in 1..Len(out[c].result.cells) : out[c].result.cells[i].commits >= 2


Started(c) == pc[c] # "idle"

\* call c starts in this step
Starts(c) == pc[c] = "idle" /\ pc'[c] # "idle"

\* call c returns a dataset in this step after computing it
Completes(c) == pc[c] \in {"discover", "repos"} /\ pc'[c] = "done"

\* C3: a second call with the same Filter Selection, forceRefresh = false,
\* made after the first has returned, with no clearCache in between and
\* within the freshness window, is served from the cache with the same
\* dataset and runs no process
C3_SecondCallFromCache ==
  [][\A c \in CallIds \ {1} :
       ( /\ Starts(c)
         /\ pc[c - 1] = "done"
         /\ req'[c].filters = req[c - 1].filters
         /\ ~req'[c].forceRefresh /\ ~req[c - 1].forceRefresh
         /\ clears = out[c - 1].clearsAt
         /\ now - out[c - 1].doneAt <= CACHE_DURATION )
       => ( /\ pc'[c] = "done" /\ out'[c].fromCache
            /\ out'[c].result = out[c - 1].result
            /\ out'[c].processes = 0 /\ ~out'[c].discovered )]_vars

\* C4: equal options get equal keys and different options get different
\* keys, so a dataset served from the cache was computed for the options of
\* the call it is served to
C4_KeyInjective ==
  /\ \A c, d \in CallIds :
       Started(c) /\ Started(d) =>
         (req[c].cacheKey = req[d].cacheKey <=> req[c].options = req[d].options)
  /\ \A c \in CallIds :
       Returned(c) /\ out[c].fromCache => out[c].servedFor = req[c].options

\* a call that computed its dataset over at least one repository
Aggregated(c) == Returned(c) /\ ~out[c].fromCache /\ work[c].repositories # <<>>

\* the repositories (by index) whose git log command failed
QueryFailed(c) == {i \in 1..Len(out[c].queried) : ~out[c].queried[i].ok}

\* the repositories (by index) whose aggregation loop threw
LoopThrew(c) ==
  {i \in 1..Len(work[c].repositories) : work[c].repositories[i] \in out[c].threwIn}

CountOn(allCommits, day) ==
  Cardinality({j \in 1..Len(allCommits) : IsoDate(allCommits[j].date.t) = day})

C6_FailuresCountedAndWarned ==
  \A c \in CallIds :
    Aggregated(c) =>
      LET failed == QueryFailed(c) \cup LoopThrew(c)
      IN /\ work[c].errorCount = Cardinality(failed)
         /\ out[c].warnings = IF failed # {} THEN 1 ELSE 0
         /\ out[c].result.summary.repositories = Len(work[c].repositories)

RECURSIVE MergeAll(_, _)
MergeAll(acc, lists) ==
  IF lists = <<>> THEN acc
  ELSE MergeAll(AggregateCommits([acc EXCEPT !.threw = FALSE], Head(lists)), Tail(lists))

\* the cells getHeatmapData builds when the per repository lists are merged
\* in the order p
CellsInOrder(c, p) ==
  LET lists == [i \in 1..Len(out[c].queried) |-> out[c].queried[p[i]].commits]
      acc == MergeAll([counts |-> EmptyMap, details |-> <<>>, threw |-> FALSE], lists)
  IN BuildCells(req[c].options, acc.counts)

\* C7: merging the per repository commit lists in any order of the
\* repositories gives the cells and the totalCommits of the dataset
C7_MergeCommutes ==
  \A c \in CallIds :
    Aggregated(c) =>
      \A p \in Permutations(1..Len(out[c].queried)) :
        /\ CellsInOrder(c, p) = out[c].result.cells
        /\ TotalCommits(CellsInOrder(c, p)) = out[c].result.summary.totalCommits

\* two repositories with commits on the same day were merged
C7_Witness ==
  \E c \in CallIds :
    /\ Aggregated(c) /\ Len(out[c].queried) = 2
    /\ \E a \in 1..Len(out[c].queried[1].commits), b \in 1..Len(out[c].queried[2].commits) :
         /\ ValidDate(out[c].queried[1].commits[a])
         /\ ValidDate(out[c].queried[2].commits[b])
         /\ IsoDate(out[c].queried[1].commits[a].date.t)
              = IsoDate(out[c].queried[2].commits[b].date.t)
    /\ \E n \in 1..Len(out[c].result.cells) : out[c].result.cells[n].commits >= 3

\* C8: a call with forceRefresh = true does not consult the cache and is
\* never served from it; it runs discovery, and when it returns the dataset
\* it computed is stored under its key with the time of the store, in
\* memory and, when the durable write is carried out, in the durable tier
C8_ForceRefreshBypassesCache ==
  [][\A c \in CallIds :
       /\ (Starts(c) /\ req'[c].forceRefresh)
            => pc'[c] = "discover" /\ cache' = cache
       /\ (Completes(c) /\ req[c].forceRefresh)
            => /\ ~out'[c].fromCache /\ out'[c].discovered
               /\ cache'[req[c].cacheKey]
                    = [data |-> out'[c].result, timestamp |-> now]
               /\ written'[req[c].cacheKey].stored
                    => globalState'[req[c].cacheKey]
                         = [data |-> out'[c].result, timestamp |-> now]]_vars

\* a forced call has returned and replaced an entry that was put under its
\* key by the other call, at an earlier time
C8_Witness ==
  \E c, d \in CallIds :
    /\ c # d /\ Returned(c) /\ req[c].forceRefresh /\ ~out[c].fromCache
    /\ Returned(d) /\ ~out[d].fromCache /\ req[d].cacheKey = req[c].cacheKey
    /\ out[d].doneAt < out[c].doneAt
    /\ out[c].doneAt - out[d].doneAt <= CACHE_DURATION
    /\ out[c].clearsAt = out[d].clearsAt
    /\ req[c].cacheKey \in DOMAIN cache
    /\ cache[req[c].cacheKey].timestamp = out[c].doneAt

\* C9: getCachedData serves an entry iff its age is at most CACHE_DURATION;
\* an older entry is a miss and is deleted from the cache
C9_FreshnessWindow ==
  [][\A c \in CallIds :
       (Starts(c) /\ ~req'[c].forceRefresh) =>
         LET k == req'[c].cacheKey
         IN IF k \notin DOMAIN cache
            THEN pc'[c] = "discover" /\ cache' = cache
            ELSE IF now - cache[k].timestamp <= CACHE_DURATION
            THEN /\ pc'[c] = "done" /\ out'[c].fromCache
                 /\ out'[c].result = cache[k].data
                 /\ cache' = cache
            ELSE /\ pc'[c] = "discover"
                 /\ k \notin DOMAIN cache'
                 /\ \A x \in DOMAIN cache : x # k => x \in DOMAIN cache' /\ cache'[x] = cache[x]]_vars

\* a call found the entry of its key expired: the entry was put, no
\* clearCache ran since, and it is gone from the cache while the call goes
\* on to discovery
C9_Witness ==
  \E c \in CallIds :
    /\ pc[c] = "discover" /\ ~req[c].forceRefresh
    /\ req[c].cacheKey \in DOMAIN written
    /\ written[req[c].cacheKey].clears = clears
    /\ req[c].cacheKey \notin DOMAIN cache
    /\ req[c].cacheKey \in DOMAIN globalState

\* an entry exactly CACHE_DURATION old was served
C9_WitnessAtLimit ==
  \E c, d \in CallIds :
    /\ Returned(c) /\ out[c].fromCache /\ Returned(d) /\ ~out[d].fromCache
    /\ req[c].cacheKey = req[d].cacheKey
    /\ out[c].doneAt - out[d].doneAt = CACHE_DURATION

Discovered(c) == out[c].discovered

\* C11: when git is not available, a call whose discovery has run has
\* failed with the tool-unavailable error: it has not gone on with a
\* repository list and has not returned a dataset, whatever the workspace
C11_ToolUnavailableFails ==
  \A c \in CallIds :
    Discovered(c) /\ ~host.gitAvailable => pc[c] = "threw"

\* the author filter the claim names, from the Filter Selection of the call
\* and the git user of the host
ClaimedAuthor(filters, gitUser) ==
  IF filters.userFilter = "all" THEN ""
  ELSE IF filters.userFilter = "custom" /\ filters.customUser \notin {None, Some("")}
  THEN filters.customUser[1]
  ELSE IF gitUser.email # "" THEN gitUser.email
  ELSE IF gitUser.name # "" THEN gitUser.name
  ELSE ""

C12_WitnessName ==
  \E c \in CallIds :
    \E i \in 1..Len(out[c].queried) :
      /\ host.gitUser.email = "" /\ out[c].queried[i].author = host.gitUser.name
      /\ out[c].queried[i].commits # <<>>

\* the fixed day count of a relative range
DaysOf(timeRange) ==
  CASE timeRange = "month" -> 30
    [] timeRange = "quarter" -> 90
    [] timeRange = "halfYear" -> 180
    [] timeRange = "year" -> 365

\* C13: the options of a call are a function of its Filter Selection and of
\* now: for a relative range rangeEnd = now and rangeStart is now minus 30 /
\* 90 / 180 / 365 calendar days (the same local time of day; that many times
\* 24 hours when the zone has the same offset at both instants); for custom,
\* the supplied dates; filterByAuthor iff userFilter is not all; authorEmail
\* is customUser for a custom user filter and unset otherwise; the other
\* fields are copied
C13_TranslateDeterministic ==
  [][\A c \in CallIds :
       Starts(c) =>
         LET f == req'[c].filters
             o == req'[c].options
         IN /\ o = convertFiltersToOptions(f, now)
            /\ f.timeRange # "custom" =>
                 /\ o.rangeEnd = now
                 /\ LocalTime(o.rangeStart) = LocalTime(now) - DaysOf(f.timeRange) * SecPerDay
                 /\ TzAt(o.rangeStart) = TzAt(now)
                      => o.rangeStart = now - DaysOf(f.timeRange) * SecPerDay
            /\ f.timeRange = "custom" =>
                 /\ f.customStartDate # None => o.rangeStart = f.customStartDate[1]
                 /\ f.customEndDate # None => o.rangeEnd = f.customEndDate[1]
            /\ o.filterByAuthor = (f.userFilter # "all")
            /\ o.authorEmail = IF f.userFilter = "custom" THEN f.customUser ELSE None
            /\ o.metric = f.metric /\ o.colorScheme = f.colorScheme
            /\ o.includeMerges = f.includeMerges /\ o.dateSource = f.dateSource]_vars

\* a call for the last year has started, and its range is 365 times 24 hours
C13_Witness ==
  \E c \in CallIds :
    /\ Started(c) /\ req[c].filters.timeRange = "year"
    /\ req[c].options.rangeEnd - req[c].options.rangeStart = 365 * SecPerDay

\* a call for the last quarter has started on a host whose zone changed its
\* offset within the quarter: the range is 90 calendar days and one hour
C13_WitnessShift ==
  \E c \in CallIds :
    /\ Started(c) /\ req[c].filters.timeRange = "quarter"
    /\ req[c].options.rangeEnd - req[c].options.rangeStart = 90 * SecPerDay + SecPerHour

\* C14: the options of every call have rangeStart <= rangeEnd
C14_RangeOrdered ==
  \A c \in CallIds :
    Started(c) => req[c].options.rangeStart <= req[c].options.rangeEnd

\* C15: after saveFilterSettings(f), loadFilterSettings returns f; after
\* clearSavedFilterSettings (and when nothing was saved) it returns the
\* default Filter Selection
C15_SettingsRoundTrip ==
  loadFilterSettings(settings.memento)
    = IF settings.lastSaved # None THEN settings.lastSaved[1] ELSE getDefaultFilterOptions

\* C16: every cell counts the commits of allCommits whose local calendar
\* day is the cell's date, and every commit of allCommits that lies on a
\* local day of the range is counted in a cell
C16_LocalDayBuckets ==
  \A c \in CallIds :
    Aggregated(c) =>
      LET ds == out[c].result
      IN \A n \in 1..Len(ds.cells) :
           ds.cells[n].commits
             = Cardinality({j \in 1..Len(ds.allCommits) :
                              LocalDate(ds.allCommits[j].date.t) = ds.cells[n].date})

\* C17: every commit a query returns has the date of the chosen date source
\* within the range (to the day, with a day of slack at either end for the
\* time of day of the bounds), and is counted in the cell of that date
C17_DateSourceFiltersAndBuckets ==
  \A c \in CallIds :
    Aggregated(c) =>
      LET o == req[c].options
          ds == out[c].result
      IN \A j \in 1..Len(ds.allCommits) :
           LET d == IsoDate(ds.allCommits[j].date.t)
           IN /\ IsoDate(o.rangeStart) - 1 <= d
              /\ d <= IsoDate(o.rangeEnd) + 1
              /\ (IsoDate(o.rangeStart) <= d /\ d <= IsoDate(o.rangeEnd))
                   => \E n \in 1..Len(ds.cells) :
                        ds.cells[n].date = d /\ ds.cells[n].commits > 0

\* C18: allCommits holds every commit of every repository whose query and
\* aggregation succeeded exactly once, most recent instant first
C18_AllCommitsSortedByInstant ==
  \A c \in CallIds :
    Aggregated(c) =>
      LET ds == out[c].result
          q == out[c].queried
      IN /\ \A i \in (1..Len(q)) \ (QueryFailed(c) \cup LoopThrew(c)) :
              \A k \in 1..Len(q[i].commits) :
                Cardinality({j \in 1..Len(ds.allCommits) :
                               ds.allCommits[j] = q[i].commits[k]}) = 1
         /\ \A i, j \in 1..Len(ds.allCommits) :
              i < j => ds.allCommits[i].date.t >= ds.allCommits[j].date.t

\* the commit of a repository with a given hash
CommitOf(repoPath, hash) ==
  LET log == RepoLog(repoPath)
  IN log[CHOOSE i \in 1..Len(log) : log[i].hash = hash]

\* C19: every record parsed from a line of git log is (hash, author, date,
\* subject) of the commit the line was printed for, whatever delimiters the
\* subject holds
C19_ParseRoundTrip ==
  \A c \in CallIds :
    \A i \in 1..Len(out[c].queried) :
      LET q == out[c].queried[i]
          repoPath == work[c].repositories[i]
      IN \A k \in 1..Len(q.commits) :
           LET r == q.commits[k]
               x == CommitOf(repoPath, r.hash)
           IN /\ <<r.author>> = x.an
              /\ r.date = Dt(IF req[c].options.dateSource = "author" THEN x.ad ELSE x.cd)
              /\ r.message = TxtAll(x.subj)
              /\ r.repository = Basename(repoPath)

\* what a commit query depends on in a Filter Selection: its options (at one
\* instant) but for the colour scheme
QueryPart(filters) ==
  [convertFiltersToOptions(filters, StartInstant) EXCEPT !.colorScheme = "github"]

\* C20: the Filter Selection of every getCommitsForDate request is the one
\* that produced the dataset surfaced when the request was made
C20_DetailUsesSurfacedFilters ==
  panel.detail # None =>
    QueryPart(panel.detail[1].filters) = QueryPart(req[panel.detail[1].shown].filters)

\* the refresh of call c has completed: its dataset was surfaced
Surfaced(c) == pc[c] = "shown"

\* C21: once overlapping refreshes have all completed, currentDataset is the
\* dataset computed for the filters of the refresh requested last
C21_LastRequestedIsSurfaced ==
  (\A c \in CallIds : Surfaced(c)) =>
    QueryPart(req[panel.shown].filters) = QueryPart(req[MaxCalls].filters)

\* call c is computing: past the cache check and not yet returned
Computing(c) == pc[c] \in {"discover", "userinfo", "repos"}

\* C22: while two calls with the same cache key (neither forced) are both
\* computing, at most one of them has run processes: discovery and the git
\* queries run once for the key
C22_SameKeyShareComputation ==
  \A c, d \in CallIds :
    ( /\ c < d
      /\ Computing(c) /\ Computing(d)
      /\ req[c].cacheKey = req[d].cacheKey
      /\ ~req[c].forceRefresh /\ ~req[d].forceRefresh )
    => (out[c].processes = 0 \/ out[d].processes = 0)

\* C23: every repository path discoverRepositories returned is one the
\* is-a-repository check (git rev-parse --git-dir) accepts
C23_DiscoveredAreRepositories ==
  \A c \in CallIds :
    \A i \in 1..Len(work[c].repositories) :
      FolderIsRepo(work[c].repositories[i])

\* C24: every updateFilters step merges the payload into currentFilters and
\* saves the result; it starts a call of getFilteredHeatmapData iff the
\* payload has a key other than colorScheme, and a colorScheme-only update
\* leaves every call and currentDataset as they were
C24_ColorSchemeOnlyNoRefresh ==
  [][panel'.updates = panel.updates + 1 =>
       LET filters == panel'.payload[1]
           colorOnly == DOMAIN filters \subseteq {"colorScheme"}
       IN /\ \A k \in DOMAIN panel.currentFilters :
               panel'.currentFilters[k]
                 = IF k \in DOMAIN filters THEN filters[k] ELSE panel.currentFilters[k]
          /\ settings'.memento = Some(SavedRecord(panel'.currentFilters, now))
          /\ (\E c \in CallIds : Starts(c)) <=> ~colorOnly
          /\ colorOnly => /\ pc' = pc /\ req' = req /\ out' = out
                          /\ panel'.shown = panel.shown
                          /\ panel'.loading = panel.loading]_vars

\* a colorScheme-only update was handled while a dataset was surfaced
C24_Witness ==
  /\ panel.payload # None
  /\ DOMAIN panel.payload[1] = {"colorScheme"}
  /\ panel.shown # 0
  /\ panel.currentFilters.colorScheme = "blue"

\* an update with other keys was handled and started a call
C24_WitnessRefresh ==
  /\ panel.payload # None
  /\ "userFilter" \in DOMAIN panel.payload[1]
  /\ \E c \in CallIds : Started(c) /\ req[c].filters = panel.currentFilters

C25_WitnessDurableAlone ==
  /\ clears > 0
  /\ \E k \in DOMAIN globalState : k \notin DOMAIN cache

PutRejected(c) ==
  /\ Computing(c)
  /\ written' # written
  /\ req[c].cacheKey \in DOMAIN written'
  /\ written'[req[c].cacheKey].by = c
  /\ ~written'[req[c].cacheKey].stored

\* C26: a put whose durable write fails still stores the in-memory entry,
\* and the call returns the dataset it computed
C26_DurableFailureContained ==
  [][\A c \in CallIds :
       PutRejected(c) =>
         /\ pc'[c] = "done"
         /\ req[c].cacheKey \in DOMAIN cache'
         /\ cache'[req[c].cacheKey].data = out'[c].result
         /\ out'[c].result
              = IF work'[c].repositories = <<>> THEN createEmptyDataset(req[c].options)
                ELSE BuildDataset(req[c].options, work'[c].repositories,
                                  work'[c].counts, work'[c].details)]_vars

\* a call has returned a dataset with commits that is in memory and not in
\* the durable store, its write having failed
C26_Witness ==
  \E c \in CallIds :
    /\ Returned(c) /\ ~out[c].fromCache
    /\ req[c].cacheKey \in DOMAIN cache
    /\ req[c].cacheKey \notin DOMAIN globalState
    /\ ~written[req[c].cacheKey].stored
    /\ cache[req[c].cacheKey].data = out[c].result
    /\ Len(out[c].result.allCommits) > 0

\* C27: in every dataset computed, every record of allCommits has exactly
\* one cell of its (UTC) date, summary.totalCommits is the length of
\* allCommits, and every cell counts the records of its date
C27_AllCommitsMatchCells ==
  \A c \in CallIds :
    Aggregated(c) =>
      LET ds == out[c].result
          on(d) == {j \in 1..Len(ds.allCommits) : IsoDate(ds.allCommits[j].date.t) = d}
      IN /\ \A j \in 1..Len(ds.allCommits) :
              Cardinality({n \in 1..Len(ds.cells) :
                             ds.cells[n].date = IsoDate(ds.allCommits[j].date.t)}) = 1
         /\ ds.summary.totalCommits = Len(ds.allCommits)
         /\ \A n \in 1..Len(ds.cells) :
              ds.cells[n].commits = Cardinality(on(ds.cells[n].date))

\* the refresh that made call c has posted loading(true) and has not yet
\* posted loading(false)
InFlight(c) == pc[c] \in {"discover", "userinfo", "repos", "done", "threw"}

\* C28: the latest loading message the webview received is loading(false)
\* iff no refresh is in flight
C28_LoadingIffInFlight ==
  ~panel.loading <=> (\A c \in CallIds : ~InFlight(c))

\* C29: no updateActivity run is started for an instance after its
\* dispose(), and at most one instance has a timer or watchers live
C29_DisposeStopsUpdates ==
  /\ statusBar.late = {}
  /\ Cardinality(statusBar.timers \cup statusBar.watchers \cup statusBar.debounce) <= 1

\* C30: each of the 7 dates getLast7DaysActivity looks up is the date of a
\* cell of the dataset it requested, the 7 counts sum to the dataset's
\* summary.totalCommits, and today's count is the count of the cell of the
\* local current day
C30_DailyKeysAreCellDates ==
  \A c \in CallIds :
    (pc[c] = "reported" /\ out[c].result.cells # <<>>) =>
      LET ds == out[c].result
          r == statusBar.reports[c]
          cellsOn(d) == {n \in 1..Len(ds.cells) : ds.cells[n].date = d}
      IN /\ \A i \in 1..DAYS_TO_SHOW : cellsOn(r.activity[i].date) # {}
         /\ r.week = ds.summary.totalCommits
         /\ \E n \in cellsOn(LocalDate(now)) : r.today = ds.cells[n].commits

=============================================================================
